---------------------------- MODULE Spec2Model ----------------------------
(***************************************************************************)
(* A model of plex-collection-maker (src/main.py): the identifier          *)
(* extractor get_item_guid, the creation pass make_collections, the update *)
(* pass edit_collections and the exporter dump_collections.                *)
(*                                                                         *)
(* Strings are sequences of atoms.  An atom is a piece of text that the    *)
(* program's substring searches and splits never cut in two: a marker      *)
(* opening such as "{tmdb-", a scheme prefix such as "plex://", a bare     *)
(* source name such as "tmdb" or "plex" (as it occurs inside the title     *)
(* "Complex"), a closing brace, one blank, one digit, or a word.  The      *)
(* Python str.find and str.split calls of the source are computed on these *)
(* sequences.                                                              *)
(***************************************************************************)
EXTENDS Naturals, Sequences, FiniteSets, TLC

VARIABLES
    libraries,             \* self.libraries: the library names of config.yml
    collections_config,    \* self.collections_config: library -> title -> entry
    server,                \* the live collections of the server, per library
    collections_to_update, \* what make_collections returns, per library
    calls,                 \* the mutating calls issued to the server, in order
    pc,                    \* where main is
    pos,                   \* index of the next collection of the running pass
    server0,               \* history: the server as it was when the run began
    guid_in,               \* get_item_guid, or one resolution: the arguments
    guid_out,              \* get_item_guid, or one resolution: the outcome
    environ,               \* os.environ: the variables of the .env file
    run                    \* history: which run of main this is

vars == << libraries, collections_config, server, collections_to_update,
           calls, pc, pos, server0, guid_in, guid_out, environ, run >>

syncVars == << libraries, collections_config, server, collections_to_update,
               calls, pc, pos, server0, environ, run >>

guidVars == << guid_in, guid_out >>

-----------------------------------------------------------------------------
(* Bounds of the model.                                                    *)

\* The most pieces (GuidPieces) a reference string handed to get_item_guid on
\* its own is put together from.
MaxPieces == 3

\* The most item references in one configured `items` list.
MaxRefs == 2

-----------------------------------------------------------------------------
(* Python's str operations, on sequences of atoms.                         *)

\* The source names that occur in the text of an atom.
SourcesOf(a) ==
    CASE a \in {"tmdb", "{tmdb-", "tmdb://"} -> {"tmdb"}
      [] a \in {"imdb", "{imdb-", "imdb://"} -> {"imdb"}
      [] a \in {"tvdb", "{tvdb-", "tvdb://"} -> {"tvdb"}
      [] a \in {"plex", "plex://"} -> {"plex"}
      [] OTHER -> {}

\* Whether the text of an atom starts with an opening brace.
StartsWithBrace(a) == a \in {"{", "{tmdb-", "{imdb-", "{tvdb-"}

\* Whether the text of an atom ends with "://".
IsScheme(a) == a \in {"tmdb://", "imdb://", "tvdb://", "plex://"}

\* s[from..]: the suffix of s from index `from`.
Drop(s, n) == SubSeq(s, n + 1, Len(s))

\* s[:n]: the prefix of s of length n.
Take(s, n) == SubSeq(s, 1, n)

\* Whether pat occurs in s at index i.
OccursAt(s, pat, i) ==
    /\ i >= 1
    /\ i + Len(pat) - 1 <= Len(s)
    /\ \A k \in 1..Len(pat) : s[i + k - 1] = pat[k]

\* s.find(pat) != -1, for a non-empty pat.
Contains(s, pat) == \E i \in 1..Len(s) : OccursAt(s, pat, i)

\* title.find(source) != -1, for a source name.
ContainsSource(s, source) == \E i \in 1..Len(s) : source \in SourcesOf(s[i])

\* s.split(sep=pat)[-1]: what follows the last occurrence of pat, or s.
AfterLast(s, pat) ==
    LET at == { i \in 1..Len(s) : OccursAt(s, pat, i) }
    IN  IF at = {} THEN s
        ELSE LET last == CHOOSE i \in at : \A j \in at : j <= i
             IN  Drop(s, last + Len(pat) - 1)

\* s.split(sep=pat)[0]: what precedes the first occurrence of pat, or s.
BeforeFirst(s, pat) ==
    LET at == { i \in 1..Len(s) : OccursAt(s, pat, i) }
    IN  IF at = {} THEN s
        ELSE LET first == CHOOSE i \in at : \A j \in at : i <= j
             IN  Take(s, first - 1)

\* s.split(" {")[0]: what precedes the first blank that an opening brace follows.
BeforeBlankBrace(s) ==
    LET at == { i \in 1..(Len(s) - 1) : s[i] = " " /\ StartsWithBrace(s[i + 1]) }
    IN  IF at = {} THEN s
        ELSE LET first == CHOOSE i \in at : \A j \in at : i <= j
             IN  Take(s, first - 1)

\* s.split("://")[-1]: what follows the last "://" of s, or s.
AfterLastScheme(s) ==
    LET at == { i \in 1..Len(s) : IsScheme(s[i]) }
    IN  IF at = {} THEN s
        ELSE LET last == CHOOSE i \in at : \A j \in at : j <= i
             IN  Drop(s, last)

\* What Python raises on [0] of an empty list.
IndexError == << "!IndexError" >>

\* What get_item_guid raises for a lib_type that is neither movie nor show.
UnknownType == << "!UnknownType" >>

\* s.split()[0]: the first run of non-blank atoms of s; IndexError if none.
FirstWord(s) ==
    LET starts == { i \in 1..Len(s) : s[i] # " " }
    IN  IF starts = {} THEN IndexError
        ELSE LET b == CHOOSE i \in starts : \A j \in starts : i <= j
                 stops == { i \in b..Len(s) : s[i] = " " }
                 e == IF stops = {} THEN Len(s) + 1
                      ELSE CHOOSE i \in stops : \A j \in stops : i <= j
             IN  SubSeq(s, b, e - 1)

\* item.split(' plex://')[0].split(' {')[0]: the title of a reference.
StripTitle(ref) == BeforeBlankBrace(BeforeFirst(ref, << " ", "plex://" >>))

-----------------------------------------------------------------------------
(* get_item_guid                                                           *)

\* lib_sources
lib_sources ==
    [ movie |-> << "tmdb", "imdb", "plex" >>,
      show  |-> << "tvdb", "tmdb", "plex" >> ]

\* The "-1" that get_item_guid returns when no GUID is available.
NoGuid == << "-1" >>

\* The atoms "{source-" and "source://" of a source name.
Marker(source) ==
    CASE source = "tmdb" -> "{tmdb-"
      [] source = "imdb" -> "{imdb-"
      [] source = "tvdb" -> "{tvdb-"

Scheme(source) ==
    CASE source = "tmdb" -> "tmdb://"
      [] source = "imdb" -> "imdb://"
      [] source = "tvdb" -> "tvdb://"
      [] source = "plex" -> "plex://"

\* s.split(sep=pat)[1]: what follows the first occurrence of pat, up to the
\* next one.
AfterFirst(s, pat) ==
    LET at == { i \in 1..Len(s) : OccursAt(s, pat, i) }
    IN  IF at = {} THEN s
        ELSE LET first == CHOOSE i \in at : \A j \in at : i <= j
             IN  BeforeFirst(Drop(s, first + Len(pat) - 1), pat)

\* GuidOfSource reading the first marker of the source, not the last.
GuidOfSourceFirst(title, source) ==
    IF source = "plex"
    THEN FirstWord(AfterFirst(title, << "plex://" >>))
    ELSE BeforeFirst(AfterFirst(title, << Marker(source) >>), << "}" >>)

\* The guid read for the first source of the list whose name title contains.
GuidOfSource(title, source) ==
    IF source = "plex"
    THEN FirstWord(AfterLast(title, << "plex://" >>))
    ELSE BeforeFirst(AfterLast(title, << Marker(source) >>), << "}" >>)

get_item_guid(title, lib_type, full) ==
    IF lib_type \notin DOMAIN lib_sources THEN UnknownType
    ELSE LET sources == lib_sources[lib_type]
             found == { i \in 1..Len(sources) : ContainsSource(title, sources[i]) }
         IN  IF found = {} THEN NoGuid
             ELSE LET i == CHOOSE i \in found : \A j \in found : i <= j
                      source == sources[i]
                      guid == GuidOfSource(title, source)
                  IN  IF guid = IndexError THEN IndexError
                      ELSE IF full THEN << Scheme(source) >> \o guid
                      ELSE guid

-----------------------------------------------------------------------------
(* The server: two libraries and the items in them.  The items of a        *)
(* library do not change during a run.                                     *)

ServerLibs == { "Movies", "TV" }

\* LibrarySection.type
LibType == [ Movies |-> "movie", TV |-> "show" ]

\* The items of each library, in the order a search returns them.
LibItems == [ Movies |-> << "m1", "m2", "m3" >>, TV |-> << "t1" >> ]

\* item.title
ItemTitle ==
    [ m1 |-> << "Alien" >>,
      m2 |-> << "Aliens" >>,
      m3 |-> << "Heat", " ", "{", "2", "}" >>,
      t1 |-> << "Dark" >> ]

\* item.guid
ItemGuid ==
    [ m1 |-> << "plex://", "movie/a" >>,
      m2 |-> << "plex://", "movie/b" >>,
      m3 |-> << "plex://", "movie/c" >>,
      t1 |-> << "plex://", "show/x" >> ]

\* item.guids: the ids of the external sources
ItemGuids ==
    [ m1 |-> { << "tmdb://", "1", "2" >> },
      m2 |-> { << "tmdb://", "1", "2", "3" >> },
      m3 |-> { << "tmdb://", "7" >> },
      t1 |-> { << "tvdb://", "5" >> } ]

ItemsOf(lib) == { LibItems[lib][i] : i \in 1..Len(LibItems[lib]) }

\* The first element of sequence s that is in set S, or "none".
FirstIn(s, S) ==
    LET at == { i \in 1..Len(s) : s[i] \in S }
    IN  IF at = {} THEN "none"
        ELSE s[CHOOSE i \in at : \A j \in at : i <= j]

\* library.getGuid(guid): the item with that guid, or "none" for NotFound.
\* A plex:// guid is looked up as the item's own guid, any other as one of
\* the item's external ids.
getGuid(lib, guid) ==
    FirstIn(LibItems[lib],
            { x \in ItemsOf(lib) :
                IF Len(guid) > 0 /\ guid[1] = "plex://"
                THEN ItemGuid[x] = guid
                ELSE guid \in ItemGuids[x] })

\* next((x for x in library.search(title=t) if x.title == t), None)
searchTitle(lib, t) ==
    FirstIn(LibItems[lib], { x \in ItemsOf(lib) : ItemTitle[x] = t })

\* ResolveRef with the title search tried before the guid.
ResolveRefTitleFirst(lib, ref) ==
    LET byTitle == searchTitle(lib, StripTitle(ref))
    IN  IF byTitle # "none" THEN byTitle
        ELSE getGuid(lib, get_item_guid(ref, LibType[lib], TRUE))

\* The lookups made for a reference, in order: the title search is made
\* when getGuid raises NotFound.
ResolveLookups(lib, ref) ==
    IF getGuid(lib, get_item_guid(ref, LibType[lib], TRUE)) # "none"
    THEN << "getGuid" >>
    ELSE << "getGuid", "search" >>

\* The item a reference resolves to: by its full guid, else by its stripped
\* title, else "none" (the reference is reported and skipped).  No reference
\* of the configurations below makes get_item_guid raise.
ResolveRef(lib, ref) ==
    LET byGuid == getGuid(lib, get_item_guid(ref, LibType[lib], TRUE))
    IN  IF byGuid # "none" THEN byGuid
        ELSE searchTitle(lib, StripTitle(ref))

\* ResolveAll giving up at the first reference that does not resolve.
RECURSIVE ResolveAllUntilMiss(_, _)
ResolveAllUntilMiss(lib, refs) ==
    IF refs = << >> THEN << >>
    ELSE LET x == ResolveRef(lib, Head(refs))
         IN  IF x = "none" THEN << >>
             ELSE << x >> \o ResolveAllUntilMiss(lib, Tail(refs))

\* The items the references of a list resolve to, in the order of the list.
RECURSIVE ResolveAll(_, _)
ResolveAll(lib, refs) ==
    IF refs = << >> THEN << >>
    ELSE LET x == ResolveRef(lib, Head(refs))
         IN  (IF x = "none" THEN << >> ELSE << x >>) \o ResolveAll(lib, Tail(refs))

Range(s) == { s[i] : i \in 1..Len(s) }

-----------------------------------------------------------------------------
(* Live collections and configuration entries.                             *)

\* The collection titles of the model, in the order of the configuration
\* files' keys.
KeyOrder == << "c1", "c2" >>

\* The collection titles of each library.
LibTitles == [ Movies |-> { "c1" }, TV |-> { "c2" } ]

\* The scalar fields of a collection the server has not been given.
NoFields ==
    [ titleSort |-> "", contentRating |-> "", summary |-> "", poster |-> "",
      mode |-> "default", sort |-> "release" ]

\* No collection of that title in the library.
Absent ==
    [ exists |-> FALSE, smart |-> FALSE, items |-> {}, labels |-> {},
      fields |-> NoFields ]

\* A configuration entry is a function from the keys it has to their values:
\* `items` and `labels` to lists, the scalar keys to strings.
HasList(e, k) == k \in DOMAIN e /\ Len(e[k]) > 0

HasText(e, k) == k \in DOMAIN e /\ e[k] # ""

\* Call with the collection taken to be c1 of Movies, whatever library and
\* title the pass is at.
CallUnscoped(op, pass, lib, title, arg) ==
    [ op |-> op, pass |-> pass, lib |-> "Movies", title |-> "c1", arg |-> arg,
      ok |-> TRUE ]

\* A mutating call to the server: what is called, by which pass, on which
\* collection, with which argument, and whether it returned or raised.
Call(op, pass, lib, title, arg) ==
    [ op |-> op, pass |-> pass, lib |-> lib, title |-> title, arg |-> arg,
      ok |-> TRUE ]

\* The methods that set one scalar field, by configuration key.
ScalarOp ==
    [ titleSort |-> "editSortTitle", contentRating |-> "editContentRating",
      summary |-> "editSummary", poster |-> "uploadPoster",
      mode |-> "modeUpdate", sort |-> "sortUpdate" ]

ScalarOps == { ScalarOp[k] : k \in DOMAIN ScalarOp }

\* The argument of the call that sets scalar field k: the keyword it is
\* passed under and the configured value.
ScalarArg(k, v) ==
    << CASE k = "titleSort" -> "sortTitle"
         [] k = "poster" -> "filepath"
         [] OTHER -> k,
       v >>

\* The calls for the scalar keys of the list that entry e has with a value.
RECURSIVE ScalarCalls(_, _, _, _, _)
ScalarCalls(pass, lib, title, e, keys) ==
    IF keys = << >> THEN << >>
    ELSE LET k == Head(keys)
         IN  (IF HasText(e, k)
              THEN << Call(ScalarOp[k], pass, lib, title, ScalarArg(k, e[k])) >>
              ELSE << >>)
             \o ScalarCalls(pass, lib, title, e, Tail(keys))

\* The calls that follow the membership calls, in the order of the source:
\* sort title, content rating, summary, labels, poster, mode, sort order.
FieldCalls(pass, lib, title, e, labelCalls) ==
    ScalarCalls(pass, lib, title, e, << "titleSort", "contentRating", "summary" >>)
    \o labelCalls
    \o ScalarCalls(pass, lib, title, e, << "poster", "mode", "sort" >>)

\* What a call that returned has done to the collection it was made on.
ApplyCall(coll, c) ==
    CASE c.op = "createCollection" ->
            [ Absent EXCEPT !.exists = TRUE, !.items = c.arg ]
      [] c.op = "addItems"    -> [ coll EXCEPT !.items = @ \cup c.arg ]
      [] c.op = "removeItems" -> [ coll EXCEPT !.items = @ \ c.arg ]
      [] c.op = "addLabel"    -> [ coll EXCEPT !.labels = @ \cup c.arg ]
      [] c.op = "removeLabel" -> [ coll EXCEPT !.labels = @ \ c.arg ]
      [] c.op = "delete"      -> Absent
      [] c.op = "editSortTitle"     -> [ coll EXCEPT !.fields.titleSort = c.arg[2] ]
      [] c.op = "editContentRating" -> [ coll EXCEPT !.fields.contentRating = c.arg[2] ]
      [] c.op = "editSummary"       -> [ coll EXCEPT !.fields.summary = c.arg[2] ]
      [] c.op = "uploadPoster"      -> [ coll EXCEPT !.fields.poster = c.arg[2] ]
      [] c.op = "modeUpdate"        -> [ coll EXCEPT !.fields.mode = c.arg[2] ]
      [] c.op = "sortUpdate"        -> [ coll EXCEPT !.fields.sort = c.arg[2] ]

RECURSIVE ApplyCalls(_, _)
ApplyCalls(coll, cs) ==
    IF cs = << >> THEN coll ELSE ApplyCalls(ApplyCall(coll, Head(cs)), Tail(cs))

\* The calls of a list that may raise: those that set a scalar field (a
\* poster file that cannot be read, a value the server rejects).  0 stands
\* for no call raising.  The membership, label and delete calls are taken
\* to return.
FailPoints(cs) == { 0 } \cup { i \in 1..Len(cs) : cs[i].op \in ScalarOps }

\* The calls issued when call k of cs raises (all of cs when k = 0): the
\* exception is caught nowhere, so no later call is made.
Issued(cs, k) ==
    IF k = 0 THEN cs
    ELSE Take(cs, k - 1) \o << [ cs[k] EXCEPT !.ok = FALSE ] >>

\* The calls of Issued(cs, k) that returned.
Returned(cs, k) == IF k = 0 THEN cs ELSE Take(cs, k - 1)

-----------------------------------------------------------------------------
(* make_collections: one configured collection title.                      *)

\* The create call with the resolved items, then the calls for the fields of
\* the entry, in the order of the source.
CreateCalls(lib, title, e, collection_items) ==
    << Call("createCollection", "make", lib, title, Range(collection_items)) >>
    \o FieldCalls("make", lib, title, e,
          IF HasList(e, "labels")
          THEN << Call("addLabel", "make", lib, title, Range(e.labels)) >>
          ELSE << >>)

\* MakeCalls without the test that an item was resolved.
MakeCallsUnchecked(lib, title, e) ==
    IF ~ HasList(e, "items") THEN << >>
    ELSE CreateCalls(lib, title, e, ResolveAll(lib, e.items))

\* The calls make_collections issues for a configured title that
\* library.collection(title) did not find: none unless the entry has items
\* and one of them resolves.
MakeCalls(lib, title, e) ==
    IF ~ HasList(e, "items") THEN << >>
    ELSE LET collection_items == ResolveAll(lib, e.items)
         IN  IF Len(collection_items) = 0 THEN << >>
             ELSE CreateCalls(lib, title, e, collection_items)

-----------------------------------------------------------------------------
(* edit_collections: one collection of collections_to_update.              *)

\* AddCandidates without the test of the members' titles.
AddCandidatesAll(refs, members) == refs

\* The references of the list for which the add phase tries a resolution:
\* those whose stripped title is the title of no member.
RECURSIVE AddCandidates(_, _)
AddCandidates(refs, members) ==
    IF refs = << >> THEN << >>
    ELSE (IF StripTitle(Head(refs)) \notin { ItemTitle[x] : x \in members }
          THEN << Head(refs) >> ELSE << >>)
         \o AddCandidates(Tail(refs), members)

\* new_items
NewItems(lib, refs, members) == ResolveAll(lib, AddCandidates(refs, members))

\* KeepsMember without the test of the member's title.
KeepsMemberByGuidOnly(lib, s, refs) ==
    \E i \in 1..Len(refs) :
        LET x == refs[i]
            config_guids ==
                { get_item_guid(refs[j], LibType[lib], FALSE) : j \in 1..i }
        IN  \/ \E sg \in ItemGuids[s] :
                  \/ Contains(x, AfterLastScheme(sg))
                  \/ AfterLastScheme(sg) \in config_guids
            \/ Contains(x, ItemGuid[s])

\* Whether the remove phase leaves member s in the collection:
\* remove_item_from_coll is False after the loop over the configured
\* references, or the title of s is the stripped title of one of them.
KeepsMember(lib, s, refs) ==
    \/ \E i \in 1..Len(refs) :
          LET x == refs[i]
              config_guids ==
                  { get_item_guid(refs[j], LibType[lib], FALSE) : j \in 1..i }
          IN  \/ \E sg \in ItemGuids[s] :
                    \/ Contains(x, AfterLastScheme(sg))
                    \/ AfterLastScheme(sg) \in config_guids
              \/ Contains(x, ItemGuid[s])
    \/ ItemTitle[s] \in { StripTitle(refs[i]) : i \in 1..Len(refs) }

\* remove_items
RemoveItems(lib, refs, members) ==
    { s \in members : ~ KeepsMember(lib, s, refs) }

\* LabelSync removing the live labels that are not among the added ones.
LabelSyncAgainstNew(lib, title, labels, live_labels) ==
    LET new_labels == Range(labels) \ live_labels
        remove_labels == live_labels \ new_labels
    IN  (IF new_labels # {}
         THEN << Call("addLabel", "edit", lib, title, new_labels) >> ELSE << >>)
        \o (IF remove_labels # {}
             THEN << Call("removeLabel", "edit", lib, title, remove_labels) >>
             ELSE << >>)

\* The calls of the label sync of an entry with a non-empty `labels` list.
LabelSync(lib, title, labels, live_labels) ==
    LET new_labels == Range(labels) \ live_labels
        remove_labels == live_labels \ Range(labels)
    IN  (IF new_labels # {}
         THEN << Call("addLabel", "edit", lib, title, new_labels) >> ELSE << >>)
        \o (IF remove_labels # {}
             THEN << Call("removeLabel", "edit", lib, title, remove_labels) >>
             ELSE << >>)

\* The calls that sync a collection to an entry with a non-empty `items`
\* list: add phase, remove phase, fields and labels.  `reloaded` tells
\* whether coll_update.items() in the remove phase reads the members anew
\* after addItems or returns the list it cached before it: this depends on
\* the client library's version.
SyncCalls(lib, title, e, live, reloaded) ==
    LET new_items == Range(NewItems(lib, e.items, live.items))
        members == IF reloaded THEN live.items \cup new_items ELSE live.items
        remove_items == RemoveItems(lib, e.items, members)
    IN  (IF new_items # {}
         THEN << Call("addItems", "edit", lib, title, new_items) >>
         ELSE << >>)
        \o (IF remove_items # {}
             THEN << Call("removeItems", "edit", lib, title, remove_items) >>
             ELSE << >>)
        \o FieldCalls("edit", lib, title, e,
              IF HasList(e, "labels")
              THEN LabelSync(lib, title, e.labels, live.labels)
              ELSE << >>)

\* EditCalls deleting only when the entry has no `items` key.
EditCallsKeyOnly(lib, title, e, live, reloaded) ==
    IF "items" \notin DOMAIN e
    THEN << Call("delete", "edit", lib, title, {}) >>
    ELSE SyncCalls(lib, title, e, live, reloaded)

\* The calls edit_collections issues for a collection that is not smart.
EditCalls(lib, title, e, live, reloaded) ==
    IF ~ HasList(e, "items")
    THEN << Call("delete", "edit", lib, title, {}) >>
    ELSE SyncCalls(lib, title, e, live, reloaded)

\* A test of coll_update.smart that never holds.
NeverSmart(coll) == FALSE

\* coll_update.smart
IsSmart(coll) == coll.smart

-----------------------------------------------------------------------------
(* main                                                                    *)

\* The configured titles of a library, in the order of the configuration.
KeysOf(lib) ==
    SelectSeq(KeyOrder, LAMBDA t : t \in DOMAIN collections_config[lib])

RECURSIVE MakeListOf(_)
\* The (library, title) pairs make_collections goes through, in order.
MakeListOf(libs) ==
    IF libs = << >> THEN << >>
    ELSE [ i \in 1..Len(KeysOf(Head(libs))) |-> << Head(libs), KeysOf(Head(libs))[i] >> ]
         \o MakeListOf(Tail(libs))

\* EditListOf going through every configured title.
EditListOfConfigured(libs, ctu) == MakeListOf(libs)

RECURSIVE EditListOf(_, _)
\* The (library, title) pairs edit_collections goes through, in order.
EditListOf(libs, ctu) ==
    IF libs = << >> THEN << >>
    ELSE [ i \in 1..Len(ctu[Head(libs)]) |-> << Head(libs), ctu[Head(libs)][i] >> ]
         \o EditListOf(Tail(libs), ctu)

MakeList == MakeListOf(libraries)

EditList == EditListOf(libraries, collections_to_update)

\* Where main is after step n - 1 of edit_collections.
NextEdit(n, ctu) ==
    IF n <= Len(EditListOf(libraries, ctu)) THEN << "edit", n >> ELSE << "done", 0 >>

\* Where main is after step n - 1 of make_collections.
NextMake(n, ctu) ==
    IF n <= Len(MakeList) THEN << "make", n >> ELSE NextEdit(1, ctu)

\* get_libraries: every configured library is looked up on the server; the
\* first that is not found ends the process.
GetLibraries ==
    /\ pc = "start"
    /\ IF Range(libraries) \subseteq ServerLibs
       THEN /\ pc' = NextMake(1, collections_to_update)[1]
            /\ pos' = NextMake(1, collections_to_update)[2]
       ELSE /\ pc' = "exit"
            /\ pos' = 0
    /\ UNCHANGED << libraries, collections_config, server, collections_to_update,
                    calls, server0, guidVars, environ, run >>

\* One turn of the inner loop of make_collections.
MakeStep ==
    /\ pc = "make"
    /\ LET lib == MakeList[pos][1]
           title == MakeList[pos][2]
           e == collections_config[lib][title]
           live == server[lib][title]
       IN  IF live.exists
           THEN LET ctu == [ collections_to_update EXCEPT ![lib] = Append(@, title) ]
                IN  /\ collections_to_update' = ctu
                    /\ pc' = NextMake(pos + 1, ctu)[1]
                    /\ pos' = NextMake(pos + 1, ctu)[2]
                    /\ UNCHANGED << server, calls >>
           ELSE LET cs == MakeCalls(lib, title, e)
                IN  \E k \in FailPoints(cs) :
                      /\ calls' = calls \o Issued(cs, k)
                      /\ server' = [ server EXCEPT ![lib][title] =
                                        ApplyCalls(@, Returned(cs, k)) ]
                      /\ pc' = IF k = 0
                               THEN NextMake(pos + 1, collections_to_update)[1]
                               ELSE "failed"
                      /\ pos' = IF k = 0
                                THEN NextMake(pos + 1, collections_to_update)[2]
                                ELSE pos
                      /\ UNCHANGED collections_to_update
    /\ UNCHANGED << libraries, collections_config, server0, guidVars, environ, run >>

\* One turn of the inner loop of edit_collections.
EditStep ==
    /\ pc = "edit"
    /\ LET lib == EditList[pos][1]
           title == EditList[pos][2]
           e == collections_config[lib][title]
           live == server[lib][title]
       IN  IF IsSmart(live)
           THEN /\ pc' = NextEdit(pos + 1, collections_to_update)[1]
                /\ pos' = NextEdit(pos + 1, collections_to_update)[2]
                /\ UNCHANGED << server, calls >>
           ELSE \E reloaded \in BOOLEAN :
                  LET cs == EditCalls(lib, title, e, live, reloaded)
                  IN  \E k \in FailPoints(cs) :
                        /\ calls' = calls \o Issued(cs, k)
                        /\ server' = [ server EXCEPT ![lib][title] =
                                          ApplyCalls(@, Returned(cs, k)) ]
                        /\ pc' = IF k = 0
                                 THEN NextEdit(pos + 1, collections_to_update)[1]
                                 ELSE "failed"
                        /\ pos' = IF k = 0
                                  THEN NextEdit(pos + 1, collections_to_update)[2]
                                  ELSE pos
    /\ UNCHANGED << libraries, collections_config, collections_to_update,
                    server0, guidVars, environ, run >>

-----------------------------------------------------------------------------
(* The runs of main(edit_collections=True): the configurations and the     *)
(* servers it is started on.                                               *)

\* The item references the configured `items` lists are drawn from.
RefPool ==
    << << "Alien", " ", "{tmdb-", "1", "2", "}" >>,
       << "Aliens", " ", "{tmdb-", "1", "2", "3", "}" >>,
       << "Alien" >>,
       << "Heat", " ", "{", "2", "}", " ", "plex://", "movie/c" >>,
       << "Nope", " ", "{tmdb-", "9", "9", "}" >>,
       << "Alien", " ", "{tmdb-", "9", "9", "}" >> >>

\* The elements of a set of indices of pool, in the order of pool.
RECURSIVE Pick(_, _)
Pick(pool, S) ==
    IF S = {} THEN << >>
    ELSE LET i == CHOOSE i \in S : \A j \in S : i <= j
         IN  << pool[i] >> \o Pick(pool, S \ { i })

\* The `items` lists: at most MaxRefs references of the pool.
ItemLists ==
    { Pick(RefPool, S) : S \in { T \in SUBSET (1..Len(RefPool)) : Cardinality(T) <= MaxRefs } }

\* An entry without keys.
NoKeys == [ k \in {} |-> "" ]

ItemsParts == { NoKeys } \cup { [ items |-> l ] : l \in ItemLists }

LabelsParts ==
    { NoKeys, [ labels |-> << >> ], [ labels |-> << "A" >> ],
      [ labels |-> << "B", "C" >> ] }

ScalarParts ==
    { NoKeys,
      [ titleSort |-> "Alien 0", contentRating |-> "", poster |-> "https://p" ],
      [ contentRating |-> "PG", summary |-> "text", poster |-> "p.jpg" ] }

\* The entries of collection c1 of library Movies.
Entries == { i @@ l @@ f : i \in ItemsParts, l \in LabelsParts, f \in ScalarParts }

\* The entry of collection c2 of library TV.
TVEntry ==
    [ items |-> << << "Dark", " ", "{tvdb-", "5", "}" >> >>,
      mode |-> "hide", sort |-> "alpha" ]

Regular(items, labels) ==
    [ Absent EXCEPT !.exists = TRUE, !.items = items, !.labels = labels ]

Smart(items, labels) ==
    [ Absent EXCEPT !.exists = TRUE, !.smart = TRUE, !.items = items,
                    !.labels = labels ]

\* What collection c1 of library Movies is on the server.
LiveMovies ==
    { Absent, Smart({ "m1" }, { "A" }) }
    \cup { Regular(items, labels) :
             items \in SUBSET ItemsOf("Movies"),
             labels \in { {}, { "A" }, { "A", "B" } } }

\* What collection c2 of library TV is on the server.
LiveTV == { Absent, Regular({ "t1" }, {}) }

\* The values of the variables of get_item_guid when it is not called alone.
NotCalled == << "!NotCalled" >>

\* An .env file with a token the server accepts and the address of a server
\* that answers.
GoodEnv == [ PLEX_TOKEN |-> << "good" >>, PLEX_SERVER_IP |-> << "http://", "up" >> ]

SyncInit ==
    /\ libraries \in { << "Movies" >>, << "Movies", "TV" >>, << "Movies", "Music" >> }
    /\ \E m \in { NoKeys } \cup { [ c1 |-> e ] : e \in Entries } :
         collections_config =
            [ lib \in Range(libraries) |->
                CASE lib = "Movies" -> m
                  [] lib = "TV" -> [ c2 |-> TVEntry ]
                  [] OTHER -> NoKeys ]
    /\ \E x \in LiveMovies, y \in LiveTV :
         /\ "TV" \notin Range(libraries) => y # Absent
         /\ "Music" \in Range(libraries) => x \in { Absent, Regular({ "m1" }, {}) }
         /\ server = [ Movies |-> [ c1 |-> x ], TV |-> [ c2 |-> y ] ]
    /\ server0 = server
    /\ collections_to_update = [ lib \in Range(libraries) |-> << >> ]
    /\ calls = << >>
    /\ pos = 0
    /\ run = 1

Init ==
    /\ SyncInit
    /\ pc = "start"
    /\ environ = GoodEnv
    /\ guid_in = NotCalled
    /\ guid_out = NotCalled

Next == GetLibraries \/ MakeStep \/ EditStep

Spec == Init /\ [][Next]_vars

-----------------------------------------------------------------------------
(* dump_collections, and a run on its output.                              *)

\* The labels, in the order the server lists them.
LabelOrder == << "A", "B", "C" >>

\* f"{x.title} {x.guid}"
DumpRef(x) == ItemTitle[x] \o << " " >> \o ItemGuid[x]

\* What dump_collections writes for collection c of a library: the fields
\* the server reports as set, mode and sort always, and a reference
\* "<title> <guid>" for each member.
DumpEntry(lib, c) ==
    LET members == SelectSeq(LibItems[lib], LAMBDA x : x \in c.items)
    IN  [ smart |-> c.smart,
          mode |-> c.fields.mode,
          sort |-> c.fields.sort,
          items |-> [ i \in 1..Len(members) |-> DumpRef(members[i]) ] ]
        @@ (IF c.fields.titleSort # ""
            THEN [ titleSort |-> c.fields.titleSort ] ELSE NoKeys)
        @@ (IF c.labels # {}
            THEN [ labels |-> SelectSeq(LabelOrder, LAMBDA l : l \in c.labels) ]
            ELSE NoKeys)
        @@ (IF c.fields.contentRating # ""
            THEN [ contentRating |-> c.fields.contentRating ] ELSE NoKeys)
        @@ (IF c.fields.summary # ""
            THEN [ summary |-> c.fields.summary ] ELSE NoKeys)

\* The files dump_collections writes, read back as the configuration.
DumpOf(libs) ==
    [ lib \in Range(libs) |->
        [ t \in { u \in LibTitles[lib] : server[lib][u].exists } |->
            DumpEntry(lib, server[lib][t]) ] ]

\* A collection with its sort title and summary set.
WithFields(c) == [ c EXCEPT !.fields.titleSort = "Alien 0", !.fields.summary = "text" ]

RoundTripInit ==
    /\ libraries = << "Movies", "TV" >>
    /\ collections_config = [ lib \in Range(libraries) |-> NoKeys ]
    /\ \E x \in LiveMovies \cup { WithFields(c) : c \in LiveMovies \ { Absent } },
          y \in LiveTV :
         server = [ Movies |-> [ c1 |-> x ], TV |-> [ c2 |-> y ] ]
    /\ server0 = server
    /\ collections_to_update = [ lib \in Range(libraries) |-> << >> ]
    /\ calls = << >>
    /\ pc = "dump"
    /\ pos = 0
    /\ run = 1
    /\ environ = GoodEnv
    /\ guid_in = NotCalled
    /\ guid_out = NotCalled

\* dump_collections; its files are then given as the collection files.
DumpCollections ==
    /\ pc = "dump"
    /\ collections_config' = DumpOf(libraries)
    /\ pc' = "start"
    /\ UNCHANGED << libraries, server, collections_to_update, calls, pos,
                    server0, guidVars, environ, run >>

SpecRoundTrip ==
    RoundTripInit /\ [][DumpCollections \/ GetLibraries \/ MakeStep \/ EditStep]_vars

-----------------------------------------------------------------------------
(* PlexCollectionMaker(): load_config and plex_setup.                      *)

\* The variables of the .env file.
EnvKeys == { "PLEX_TOKEN", "PLEX_SERVER_IP", "PLEX_SERVER_PUBLIC_IP" }

\* The addresses a variable is given: of a server that answers, with and
\* without a scheme, and of one that does not answer.
Addresses ==
    { << "http://", "up" >>, << "https://", "up" >>, << "up" >>,
      << "http://", "down" >> }

\* The tokens: one the server accepts and one it refuses.
Tokens == { << "good" >>, << "bad" >> }

\* The .env files.
Environs == UNION { [ K -> Tokens \cup Addresses ] : K \in SUBSET EnvKeys }

Envs ==
    { env \in Environs :
        /\ "PLEX_TOKEN" \in DOMAIN env => env.PLEX_TOKEN \in Tokens
        /\ \A k \in DOMAIN env \ { "PLEX_TOKEN" } : env[k] \in Addresses }

\* None
None == << "None" >>

\* A test of the address that every address passes.
AnyAddress(ip) == TRUE

\* not ((ip[:7] != "http://") and (ip[:8] != "https://"))
ValidAddress(ip) == ip # << >> /\ Head(ip) \in { "http://", "https://" }

\* self.plex_ip, self.using_public_ip and self.plex_pub_ip as load_config
\* sets them when it finds an address.
plex_ip(env) ==
    IF "PLEX_SERVER_IP" \in DOMAIN env THEN env.PLEX_SERVER_IP
    ELSE env.PLEX_SERVER_PUBLIC_IP

using_public_ip(env) == "PLEX_SERVER_IP" \notin DOMAIN env

plex_pub_ip(env) ==
    IF ~ using_public_ip(env) /\ "PLEX_SERVER_PUBLIC_IP" \in DOMAIN env
    THEN env.PLEX_SERVER_PUBLIC_IP
    ELSE None

\* Whether load_config ends the process: no token, no address, or an
\* address that begins with neither "http://" nor "https://".
LoadConfigExits(env) ==
    \/ "PLEX_TOKEN" \notin DOMAIN env
    \/ { "PLEX_SERVER_IP", "PLEX_SERVER_PUBLIC_IP" } \cap DOMAIN env = {}
    \/ \E ip \in { plex_ip(env), plex_pub_ip(env) } :
          ip # None /\ ~ ValidAddress(ip)

\* PlexServer(baseurl, token): the connection, or the exception it raises.
PlexServer(baseurl, token) ==
    IF baseurl[Len(baseurl)] = "down" THEN "RequestException"
    ELSE IF token # << "good" >> THEN "Unauthorized"
    ELSE "plex"

\* Whether plex_setup ends the process: the token is refused, or the server
\* answers at neither address.
PlexSetupExits(env) ==
    LET first == PlexServer(plex_ip(env), env.PLEX_TOKEN)
    IN  CASE first = "plex" -> FALSE
          [] first = "Unauthorized" -> TRUE
          [] first = "RequestException" ->
               IF plex_pub_ip(env) # None
               THEN PlexServer(plex_pub_ip(env), env.PLEX_TOKEN) # "plex"
               ELSE TRUE

\* pcm = PlexCollectionMaker()
Construct ==
    /\ pc = "new"
    /\ pc' = IF LoadConfigExits(environ) \/ PlexSetupExits(environ)
             THEN "exit" ELSE "start"
    /\ UNCHANGED << libraries, collections_config, server,
                    collections_to_update, calls, pos, server0, guidVars,
                    environ, run >>

\* The runs from before the construction: every .env file, with the
\* configurations of SyncInit that have the first two references of the pool
\* as the items of c1, on the servers where c1 is absent or has one member.
SetupInit ==
    /\ SyncInit
    /\ "c1" \in DOMAIN collections_config["Movies"]
    /\ collections_config["Movies"]["c1"] =
          [ items |-> << RefPool[1], RefPool[2] >>, labels |-> << "A" >> ]
    /\ server["Movies"]["c1"] \in { Absent, Regular({ "m1" }, {}) }
    /\ pc = "new"
    /\ environ \in Envs
    /\ guid_in = NotCalled
    /\ guid_out = NotCalled

SpecSetup ==
    SetupInit /\ [][Construct \/ GetLibraries \/ MakeStep \/ EditStep]_vars

-----------------------------------------------------------------------------
(* main run twice: the second run starts on the server the first left.     *)

\* The runs of SyncInit on the libraries the server has, with entries of
\* `items` and `labels` only.
RerunInit ==
    /\ SyncInit
    /\ Range(libraries) \subseteq ServerLibs
    /\ \A t \in DOMAIN collections_config["Movies"] :
          DOMAIN collections_config["Movies"][t] \subseteq { "items", "labels" }
    /\ pc = "start"
    /\ environ = GoodEnv
    /\ guid_in = NotCalled
    /\ guid_out = NotCalled

\* main is started again with the same configuration, once the first run
\* has completed.
Rerun ==
    /\ pc = "done"
    /\ run = 1
    /\ run' = 2
    /\ pc' = "start"
    /\ pos' = 0
    /\ collections_to_update' = [ lib \in Range(libraries) |-> << >> ]
    /\ calls' = << >>
    /\ server0' = server
    /\ UNCHANGED << libraries, collections_config, server, guidVars, environ >>

SpecRerun ==
    RerunInit /\ [][GetLibraries \/ MakeStep \/ EditStep \/ Rerun]_vars

-----------------------------------------------------------------------------
(* get_item_guid called on its own.                                        *)

\* The pieces the reference strings are put together from.
GuidPieces ==
    { << "{tmdb-", "1", "}" >>, << "{tmdb-", "2", "}" >>, << "{imdb-", "1", "}" >>,
      << "{tvdb-", "1", "}" >>, << "plex://", "1" >>, << "tmdb" >>, << "plex" >>,
      << " " >>, << "}" >>, << "{tmdb-" >>, << "1" >>, << "x" >> }

\* The strings of at most n pieces.
RECURSIVE Concats(_)
Concats(n) ==
    IF n = 0 THEN { << >> }
    ELSE LET shorter == Concats(n - 1)
         IN  shorter \cup { t \o p : t \in shorter, p \in GuidPieces }

GuidInit ==
    /\ guid_in \in [ title : Concats(MaxPieces),
                      lib_type : { "movie", "show", "artist" },
                      full : BOOLEAN ]
    /\ guid_out = NotCalled
    /\ libraries = << >>
    /\ collections_config = NoKeys
    /\ server = NoKeys
    /\ server0 = NoKeys
    /\ collections_to_update = NoKeys
    /\ calls = << >>
    /\ pc = "idle"
    /\ pos = 0
    /\ run = 1
    /\ environ = NoKeys

CallGetItemGuid ==
    /\ pc = "idle"
    /\ guid_out = NotCalled
    /\ guid_out' = get_item_guid(guid_in.title, guid_in.lib_type, guid_in.full)
    /\ UNCHANGED << guid_in, syncVars >>

SpecGuid == GuidInit /\ [][CallGetItemGuid]_vars

\* The digits of an identifier.
Digits == { "1", "2", "3", "5", "7", "9" }

\* s[i..j] is a marker {tmdb-<digits>}.
IsTmdbMarker(s, i, j) ==
    /\ i + 1 < j
    /\ s[i] = "{tmdb-"
    /\ s[j] = "}"
    /\ \A k \in (i + 1)..(j - 1) : s[k] \in Digits

\* <digits> in bare form, tmdb://<digits> in full form.
TmdbGuid(digits, full) == IF full THEN << "tmdb://" >> \o digits ELSE digits

GuidCalled == guid_out # NotCalled

\* C7 as claimed: for kind movie, whatever marker {tmdb-<digits>} the string
\* contains, the value returned is <digits> (tmdb://<digits> in full form).
C7_AnyMarker ==
    (GuidCalled /\ guid_in.lib_type = "movie") =>
        \A i, j \in 1..Len(guid_in.title) :
            IsTmdbMarker(guid_in.title, i, j) =>
                guid_out = TmdbGuid(SubSeq(guid_in.title, i + 1, j - 1), guid_in.full)

\* C7 as amended: for kind movie, when the last "{tmdb-" of the string opens
\* a marker {tmdb-<digits>}, the value returned is <digits> (tmdb://<digits>
\* in full form), whatever else the string contains.
C7_LastMarker ==
    (GuidCalled /\ guid_in.lib_type = "movie") =>
        \A i, j \in 1..Len(guid_in.title) :
            ( /\ IsTmdbMarker(guid_in.title, i, j)
              /\ \A k \in (i + 1)..Len(guid_in.title) : guid_in.title[k] # "{tmdb-" )
            => guid_out = TmdbGuid(SubSeq(guid_in.title, i + 1, j - 1), guid_in.full)

\* get_item_guid has returned for kind movie, in full form, on a string with
\* two tmdb markers of different digits, an imdb marker or a bare source name.
C7_Witness ==
    /\ GuidCalled
    /\ guid_in.lib_type = "movie"
    /\ guid_in.full
    /\ guid_in.title = << "{tmdb-", "1", "}", "tmdb", "{tmdb-", "2", "}" >>
    /\ guid_out = << "tmdb://", "2" >>

\* C8 as claimed: for kind movie and kind show, a string with no marker
\* opening and no plex:// makes get_item_guid return "-1" in both forms.
C8_NoMarkerGivesSentinel ==
    ( /\ GuidCalled
      /\ guid_in.lib_type \in { "movie", "show" }
      /\ \A i \in 1..Len(guid_in.title) :
            guid_in.title[i] \notin { "{tmdb-", "{imdb-", "{tvdb-", "plex://" } )
    => guid_out = NoGuid

-----------------------------------------------------------------------------
(* The resolution of one reference on its own.                             *)

\* The references: a title, then nothing, a marker or a plex guid.
ResolveTitles ==
    { << "Alien" >>, << "Aliens" >>, << "Heat", " ", "{", "2", "}" >>,
      << "Nope" >>, << "Dark" >> }

ResolveSuffixes ==
    { << >>,
      << " ", "{tmdb-", "1", "2", "}" >>,
      << " ", "{tmdb-", "1", "2", "3", "}" >>,
      << " ", "{tmdb-", "7", "}" >>,
      << " ", "{tmdb-", "9", "9", "}" >>,
      << " ", "{imdb-", "7", "}" >>,
      << " ", "{tvdb-", "5", "}" >>,
      << " ", "plex://", "movie/a" >>,
      << " ", "plex://", "movie/c" >>,
      << " ", "plex://", "movie/zz" >>,
      << " ", "plex://", "show/x" >> }

ResolveInit ==
    /\ guid_in \in [ ref : { t \o x : t \in ResolveTitles, x \in ResolveSuffixes },
                      lib : ServerLibs ]
    /\ guid_out = NotCalled
    /\ libraries = << >>
    /\ collections_config = NoKeys
    /\ server = NoKeys
    /\ server0 = NoKeys
    /\ collections_to_update = NoKeys
    /\ calls = << >>
    /\ pc = "resolve"
    /\ pos = 0
    /\ run = 1
    /\ environ = NoKeys

\* The try blocks that resolve one item reference, in make_collections and
\* in edit_collections.  The outcome is the item, then the lookups made.
CallResolve ==
    /\ pc = "resolve"
    /\ guid_out = NotCalled
    /\ guid_out' = << ResolveRef(guid_in.lib, guid_in.ref) >>
                    \o ResolveLookups(guid_in.lib, guid_in.ref)
    /\ UNCHANGED << guid_in, syncVars >>

SpecResolve == ResolveInit /\ [][CallResolve]_vars

-----------------------------------------------------------------------------
(* The passes: what is issued to which collection.                         *)

\* The libraries of the configuration that get_libraries finds.
Listed == Range(libraries) \cap ServerLibs

Configured(lib, title) == title \in DOMAIN collections_config[lib]

\* The calls issued on a collection, and those of them of some methods.
CallsOn(lib, title) ==
    { i \in 1..Len(calls) : calls[i].lib = lib /\ calls[i].title = title }

OpsOn(lib, title, ops) == { i \in CallsOn(lib, title) : calls[i].op \in ops }

\* The pass in which a call raised, when one did.
FailedIn == IF pc = "failed" THEN calls[Len(calls)].pass ELSE "none"

\* make_collections has come to the title: it has gone through it, or a
\* call it issued for it has raised.
MakeReached(lib, title) ==
    \E i \in 1..Len(MakeList) :
        /\ MakeList[i] = << lib, title >>
        /\ \/ pc \in { "edit", "done" }
           \/ pc = "make" /\ pos > i
           \/ pc = "failed" /\ (FailedIn = "edit" \/ pos >= i)

\* edit_collections has gone through the collection, no call raising.
EditCompleted(lib, title) ==
    \E i \in 1..Len(EditList) :
        /\ EditList[i] = << lib, title >>
        /\ \/ pc = "done"
           \/ pc = "edit" /\ pos > i
           \/ pc = "failed" /\ FailedIn = "edit" /\ pos > i

\* The collection was a regular collection of the server when the run began.
WasRegular(lib, title) ==
    server0[lib][title].exists /\ ~ server0[lib][title].smart

\* A regular collection whose entry has no `items` key or an empty list.
DeleteTarget(lib, title) ==
    /\ WasRegular(lib, title)
    /\ Configured(lib, title)
    /\ ~ HasList(collections_config[lib][title], "items")

\* C1: a regular collection whose entry has no `items` key or an empty
\* `items` list receives no call but delete, exactly one delete once the
\* update pass has gone through it, and delete is issued on no other
\* collection.
C1_DeleteOnEmptyItems ==
    \A lib \in Listed : \A title \in LibTitles[lib] :
        LET deletes == OpsOn(lib, title, { "delete" })
        IN  /\ deletes # {} => DeleteTarget(lib, title)
            /\ DeleteTarget(lib, title) =>
                  /\ CallsOn(lib, title) = deletes
                  /\ Cardinality(deletes) <= 1
                  /\ EditCompleted(lib, title) => Cardinality(deletes) = 1

\* The run is over; collection c1 of Movies had members and labels, its
\* entry has `items: []`, labels and a poster, and it was deleted by the one
\* call issued on it.
C1_Witness ==
    /\ pc = "done"
    /\ DeleteTarget("Movies", "c1")
    /\ "items" \in DOMAIN collections_config["Movies"]["c1"]
    /\ HasList(collections_config["Movies"]["c1"], "labels")
    /\ HasText(collections_config["Movies"]["c1"], "poster")
    /\ server0["Movies"]["c1"].items # {}
    /\ server0["Movies"]["c1"].labels # {}
    /\ Cardinality(CallsOn("Movies", "c1")) = 1
    /\ ~ server["Movies"]["c1"].exists

\* C2: a collection that is smart receives no call at all, whatever its
\* entry holds, and stays as it was.
C2_SmartUntouched ==
    \A lib \in ServerLibs : \A title \in LibTitles[lib] :
        server0[lib][title].smart =>
            /\ CallsOn(lib, title) = {}
            /\ server[lib][title] = server0[lib][title]

\* The run is over; collection c1 of Movies is smart and its entry, which
\* has labels and a poster but no items, would have had a regular collection
\* deleted.
C2_Witness ==
    /\ pc = "done"
    /\ server0["Movies"]["c1"].smart
    /\ Configured("Movies", "c1")
    /\ ~ HasList(collections_config["Movies"]["c1"], "items")
    /\ HasList(collections_config["Movies"]["c1"], "labels")
    /\ HasText(collections_config["Movies"]["c1"], "poster")
    /\ "TV" \in Listed
    /\ calls # << >>

\* C3: no create call has an empty item set, and a configured collection
\* that is not on the server and whose entry has no `items` key, an empty
\* list or only references that do not resolve receives no call at all.
C3_NoEmptyCreate ==
    /\ \A i \in 1..Len(calls) :
          calls[i].op = "createCollection" => calls[i].arg # {}
    /\ \A lib \in Listed : \A title \in LibTitles[lib] :
          ( /\ ~ server0[lib][title].exists
            /\ Configured(lib, title)
            /\ \/ ~ HasList(collections_config[lib][title], "items")
               \/ \A k \in 1..Len(collections_config[lib][title].items) :
                     ResolveRef(lib, collections_config[lib][title].items[k]) = "none" )
          => CallsOn(lib, title) = {}

\* The creation pass is over; collection c1 of Movies was not on the server,
\* its entry has labels, a poster and an `items` list of which nothing
\* resolves, and no call was issued on it.
C3_Witness ==
    /\ pc \in { "edit", "done" }
    /\ ~ server0["Movies"]["c1"].exists
    /\ Configured("Movies", "c1")
    /\ HasList(collections_config["Movies"]["c1"], "items")
    /\ \A k \in 1..Len(collections_config["Movies"]["c1"].items) :
          ResolveRef("Movies", collections_config["Movies"]["c1"].items[k]) = "none"
    /\ HasList(collections_config["Movies"]["c1"], "labels")
    /\ HasText(collections_config["Movies"]["c1"], "poster")
    /\ CallsOn("Movies", "c1") = {}
    /\ ~ server["Movies"]["c1"].exists

\* The items the references of a list resolve to.
ResolvedSet(lib, refs) ==
    { ResolveRef(lib, refs[k]) : k \in 1..Len(refs) } \ { "none" }

\* C4: a configured collection that is not on the server and has a
\* reference that resolves receives at most one create call, exactly one
\* once the creation pass has come to it, and the items of that call are
\* exactly the items its references resolve to.
C4_CreateWithResolved ==
    \A lib \in Listed : \A title \in LibTitles[lib] :
        ( /\ ~ server0[lib][title].exists
          /\ Configured(lib, title)
          /\ HasList(collections_config[lib][title], "items")
          /\ ResolvedSet(lib, collections_config[lib][title].items) # {} )
        => LET creates == OpsOn(lib, title, { "createCollection" })
           IN  /\ Cardinality(creates) <= 1
               /\ MakeReached(lib, title) => Cardinality(creates) = 1
               /\ \A i \in creates :
                     calls[i].arg =
                        ResolvedSet(lib, collections_config[lib][title].items)

\* The run is over; the entry of collection c1 of Movies, which was not on
\* the server, lists a reference that does not resolve before one that does,
\* and the collection was created with the one item.
C4_Witness ==
    /\ pc = "done"
    /\ ~ server0["Movies"]["c1"].exists
    /\ Configured("Movies", "c1")
    /\ HasList(collections_config["Movies"]["c1"], "items")
    /\ Len(collections_config["Movies"]["c1"].items) = 2
    /\ ResolveRef("Movies", collections_config["Movies"]["c1"].items[1]) = "none"
    /\ ResolveRef("Movies", collections_config["Movies"]["c1"].items[2]) = "m1"
    /\ \E i \in 1..Len(calls) :
          /\ calls[i].op = "createCollection"
          /\ calls[i].title = "c1"
          /\ calls[i].arg = { "m1" }
    /\ server["Movies"]["c1"].items = { "m1" }

\* C5: on a regular collection whose entry has a non-empty `labels` list,
\* the add-label call receives exactly the configured labels that are not
\* live, the remove-label call exactly the live labels that are not
\* configured, neither is issued with an empty set, and once the update pass
\* has synced the collection each was issued if and only if its set is not
\* empty.
C5_LabelSync ==
    \A lib \in Listed : \A title \in LibTitles[lib] :
        ( /\ WasRegular(lib, title)
          /\ Configured(lib, title)
          /\ HasList(collections_config[lib][title], "labels") )
        => LET e == collections_config[lib][title]
               toAdd == Range(e.labels) \ server0[lib][title].labels
               toRemove == server0[lib][title].labels \ Range(e.labels)
               adds == OpsOn(lib, title, { "addLabel" })
               removes == OpsOn(lib, title, { "removeLabel" })
           IN  /\ \A i \in adds : calls[i].arg = toAdd /\ toAdd # {}
               /\ \A i \in removes : calls[i].arg = toRemove /\ toRemove # {}
               /\ Cardinality(adds) <= 1
               /\ Cardinality(removes) <= 1
               /\ (EditCompleted(lib, title) /\ HasList(e, "items")) =>
                     /\ adds # {} <=> toAdd # {}
                     /\ removes # {} <=> toRemove # {}

\* The run is over; collection c1 of Movies had the labels A and B, its
\* entry lists B and C, C was added and A was removed.
C5_Witness ==
    /\ pc = "done"
    /\ WasRegular("Movies", "c1")
    /\ server0["Movies"]["c1"].labels = { "A", "B" }
    /\ Configured("Movies", "c1")
    /\ HasList(collections_config["Movies"]["c1"], "labels")
    /\ collections_config["Movies"]["c1"].labels = << "B", "C" >>
    /\ \E i, j \in 1..Len(calls) :
          /\ calls[i].op = "addLabel" /\ calls[i].arg = { "C" }
          /\ calls[j].op = "removeLabel" /\ calls[j].arg = { "A" }
    /\ server["Movies"]["c1"].labels = { "B", "C" }

\* C6 as claimed: a run on the output of dump_collections, the server
\* unchanged, issues no add-items, remove-items, create or delete call.
C6_RoundTripIssuesNothing ==
    \A i \in 1..Len(calls) :
        calls[i].op \notin { "addItems", "removeItems", "createCollection", "delete" }

\* C9 as claimed: a call that raises does not end the run.
C9_FailureContained ==
    (\E i \in 1..Len(calls) : ~ calls[i].ok) => pc # "failed"

\* C10 as claimed: once the update pass has synced a regular collection
\* whose entry has a non-empty `items` list of which every reference
\* resolves, the members of the collection are exactly the items the
\* references resolve to.
C10_MembershipConverges ==
    \A lib \in Listed : \A title \in LibTitles[lib] :
        ( /\ WasRegular(lib, title)
          /\ Configured(lib, title)
          /\ HasList(collections_config[lib][title], "items")
          /\ \A k \in 1..Len(collections_config[lib][title].items) :
                ResolveRef(lib, collections_config[lib][title].items[k]) # "none"
          /\ EditCompleted(lib, title) )
        => server[lib][title].items =
              ResolvedSet(lib, collections_config[lib][title].items)


-----------------------------------------------------------------------------
(* Setup errors.                                                           *)

\* The setup errors of the claim: no token, an address that lacks the
\* scheme, a configured library the server does not have.
SetupError ==
    \/ "PLEX_TOKEN" \notin DOMAIN environ
    \/ \E k \in DOMAIN environ \ { "PLEX_TOKEN" } :
          Head(environ[k]) \notin { "http://", "https://" }
    \/ ~ (Range(libraries) \subseteq ServerLibs)

-----------------------------------------------------------------------------
(* Labels, poster.                                                         *)

\* A regular collection whose entry has a non-empty `items` list and a
\* `labels` key with an empty list.
EmptyLabelsTarget(lib, title) ==
    /\ WasRegular(lib, title)
    /\ Configured(lib, title)
    /\ HasList(collections_config[lib][title], "items")
    /\ "labels" \in DOMAIN collections_config[lib][title]
    /\ collections_config[lib][title].labels = << >>

\* C12: once the update pass has gone through a regular collection
\* whose entry has an empty `labels` list, the collection has no labels.
C12_EmptyLabelsClears ==
    \A lib \in Listed : \A title \in LibTitles[lib] :
        EmptyLabelsTarget(lib, title) /\ EditCompleted(lib, title)
        => server[lib][title].labels = {}


\* The poster values of the configurations that start with http:// or
\* https://.
PosterUrls == { "http://p", "https://p" }

\* C13: in both passes a poster value that starts with http:// or https://
\* is passed to uploadPoster as the url, any other value as the filepath.
C13_PosterByUrlOrPath ==
    \A i \in 1..Len(calls) :
        calls[i].op = "uploadPoster"
        => calls[i].arg[1] =
              IF calls[i].arg[2] \in PosterUrls THEN "url" ELSE "filepath"


-----------------------------------------------------------------------------
(* The phases of the update pass.                                          *)

\* A regular collection whose entry has a non-empty `items` list.
SyncTarget(lib, title) ==
    /\ WasRegular(lib, title)
    /\ Configured(lib, title)
    /\ HasList(collections_config[lib][title], "items")

\* The items the add-items calls on a collection were passed.
AddedTo(lib, title) ==
    UNION { calls[i].arg : i \in OpsOn(lib, title, { "addItems" }) }

\* The part of an external identifier after "://".
IdOf(sg) == AfterLastScheme(sg)

\* The conditions (a), (b) and (c) for member s and the references refs.
MatchesReference(lib, s, refs) ==
    \E r \in Range(refs) :
        \/ \E sg \in ItemGuids[s] :
              \/ Contains(r, IdOf(sg))
              \/ \E q \in Range(refs) :
                    IdOf(sg) = get_item_guid(q, LibType[lib], FALSE)
        \/ Contains(r, ItemGuid[s])
        \/ ItemTitle[s] = StripTitle(r)

\* C14: the members passed to remove-items are exactly the current members
\* that no configured reference matches by (a) an external identifier, (b)
\* the native guid or (c) the stripped title; they go in one call, which is
\* issued only when there is such a member.
C14_RemovePhase ==
    \A lib \in Listed : \A title \in LibTitles[lib] :
        SyncTarget(lib, title)
        => LET refs == collections_config[lib][title].items
               current == server0[lib][title].items \cup AddedTo(lib, title)
               marked == { s \in current : ~ MatchesReference(lib, s, refs) }
               removes == OpsOn(lib, title, { "removeItems" })
           IN  /\ Cardinality(removes) <= 1
               /\ \A i \in removes : calls[i].arg = marked /\ marked # {}
               /\ EditCompleted(lib, title) /\ marked # {} => removes # {}

\* C14 witness: the update pass is over; of two members, the one whose title
\* is all that a reference matches was kept and the other was removed.
C14_Witness ==
    /\ pc = "done"
    /\ SyncTarget("Movies", "c1")
    /\ server0["Movies"]["c1"].items = { "m1", "m3" }
    /\ collections_config["Movies"]["c1"].items = << RefPool[3] >>
    /\ \E i \in OpsOn("Movies", "c1", { "removeItems" }) : calls[i].arg = { "m3" }
    /\ server["Movies"]["c1"].items = { "m1" }


\* The items the configured references resolve to whose stripped title is
\* the title of no member of the collection.
ResolvedNew(lib, refs, members) ==
    { ResolveRef(lib, r) :
        r \in { q \in Range(refs) :
                  \A x \in members : ItemTitle[x] # StripTitle(q) } }
    \ { "none" }

\* C15: the items passed to add-items are exactly those the references
\* resolve to whose stripped title is the title of no current member; they
\* go in one call, at most one per collection and run, and none is issued
\* when nothing resolved.
C15_AddPhase ==
    \A lib \in Listed : \A title \in LibTitles[lib] :
        SyncTarget(lib, title)
        => LET refs == collections_config[lib][title].items
               new == ResolvedNew(lib, refs, server0[lib][title].items)
               adds == OpsOn(lib, title, { "addItems" })
           IN  /\ Cardinality(adds) <= 1
               /\ \A i \in adds : calls[i].arg = new /\ new # {}
               /\ EditCompleted(lib, title) /\ new # {} => adds # {}

\* C15 witness: the update pass is over; of two references that resolve,
\* the one whose title is a member's was left out of the add-items call.
C15_Witness ==
    /\ pc = "done"
    /\ SyncTarget("Movies", "c1")
    /\ server0["Movies"]["c1"].items = { "m1" }
    /\ collections_config["Movies"]["c1"].items = << RefPool[1], RefPool[2] >>
    /\ \E i \in OpsOn("Movies", "c1", { "addItems" }) : calls[i].arg = { "m2" }
    /\ server["Movies"]["c1"].items = { "m1", "m2" }


-----------------------------------------------------------------------------
(* Resolution order.                                                       *)

\* The items of a library that have the identifier extracted from a
\* reference, and those whose title is its stripped title.
HasIdOf(lib, ref) ==
    LET id == get_item_guid(ref, LibType[lib], TRUE)
    IN  { x \in ItemsOf(lib) : ItemGuid[x] = id \/ id \in ItemGuids[x] }

HasTitleOf(lib, ref) ==
    { x \in ItemsOf(lib) : ItemTitle[x] = StripTitle(ref) }

\* C16: a reference is looked up by its full identifier first and resolves
\* to an item that has it; the title search is made only when that lookup
\* found nothing, and gives only an item whose title is the stripped title;
\* the reference is skipped only when both found nothing.
C16_ResolutionOrder ==
    pc = "resolve" /\ guid_out # NotCalled
    => LET byId == HasIdOf(guid_in.lib, guid_in.ref)
           byTitle == HasTitleOf(guid_in.lib, guid_in.ref)
           item == Head(guid_out)
           lookups == Tail(guid_out)
       IN  /\ lookups[1] = "getGuid"
           /\ byId # {}
              => item \in byId /\ lookups = << "getGuid" >>
           /\ byId = {}
              => /\ lookups = << "getGuid", "search" >>
                 /\ byTitle # {} => item \in byTitle
                 /\ byTitle = {} => item = "none"

\* C16 witness: a reference with the title of one item and the identifier
\* of another has resolved to the item with the identifier.
C16_Witness ==
    /\ pc = "resolve"
    /\ guid_in.lib = "Movies"
    /\ guid_in.ref = << "Alien", " ", "{tmdb-", "1", "2", "3", "}" >>
    /\ guid_out = << "m2", "getGuid" >>


-----------------------------------------------------------------------------
(* The two passes.                                                         *)

MembershipOps == { "addItems", "removeItems", "delete" }

\* C17: the creation pass issues no call on a collection that exists, every
\* call of the creation pass comes before every call of the update pass, and
\* the update pass issues calls only on collections that existed when the
\* run began: a collection created in the run receives no add-items,
\* remove-items or delete call.
C17_PassSeparation ==
    /\ \A i \in 1..Len(calls) :
          /\ calls[i].pass = "make" => ~ server0[calls[i].lib][calls[i].title].exists
          /\ calls[i].pass = "edit" => server0[calls[i].lib][calls[i].title].exists
          /\ \A j \in 1..Len(calls) :
                i < j /\ calls[i].pass = "edit" => calls[j].pass = "edit"
    /\ pc = "edit" => \A lib \in Listed : \A t \in DOMAIN collections_config[lib] :
                         MakeReached(lib, t)
    /\ \A lib \in Listed : \A title \in LibTitles[lib] :
          OpsOn(lib, title, { "createCollection" }) # {}
          => OpsOn(lib, title, MembershipOps) = {}

\* C17 witness: the run is over; the first library's collection was created
\* with a reference whose stripped title is not the item's title, the second
\* library's collection existed and was synced after that.
C17_Witness ==
    /\ pc = "done"
    /\ libraries = << "Movies", "TV" >>
    /\ Configured("Movies", "c1")
    /\ HasList(collections_config["Movies"]["c1"], "items")
    /\ collections_config["Movies"]["c1"].items = << RefPool[4] >>
    /\ OpsOn("Movies", "c1", { "createCollection" }) # {}
    /\ server0["TV"]["c2"].exists
    /\ \E i \in CallsOn("Movies", "c1"), j \in CallsOn("TV", "c2") :
          i < j /\ calls[i].pass = "make" /\ calls[j].pass = "edit"


\* C18: the second run with the same configuration, on the server the first
\* run left, issues no create, add-items, remove-items or delete call.
C18_SecondRunIssuesNothing ==
    run = 2
    => \A i \in 1..Len(calls) :
          calls[i].op \notin { "createCollection" } \cup MembershipOps


-----------------------------------------------------------------------------
(* Frame.                                                                  *)

\* C19: a collection whose title is not a key of its library's
\* configuration, and a collection of a library the configuration does not
\* list, receives no call and stays what it was.
C19_Frame ==
    \A lib \in ServerLibs : \A title \in LibTitles[lib] :
        (lib \notin Range(libraries) \/ ~ Configured(lib, title))
        => /\ CallsOn(lib, title) = {}
           /\ server[lib][title] = server0[lib][title]

\* C19 witness: the run is over and has issued calls on the collection of
\* the second library; the first library's collection, which has members
\* and labels and no entry, is what it was.
C19_Witness ==
    /\ pc = "done"
    /\ libraries = << "Movies", "TV" >>
    /\ ~ Configured("Movies", "c1")
    /\ server0["Movies"]["c1"] = Regular({ "m1", "m2" }, { "A" })
    /\ server["Movies"]["c1"] = server0["Movies"]["c1"]
    /\ CallsOn("TV", "c2") # {}

=============================================================================
